---- MODULE Spec2Model ----
(***************************************************************************)
(* FitLib: Parameter / Function / CompositeFunction (Function.py), the     *)
(* Fitter (Fitter.py) and SweepInitialParameters (Convenience.py).         *)
(*                                                                         *)
(* Parameter objects live in an arena indexed by Params: the index is the  *)
(* object's identity.  float64 numbers are modelled by integers; the RMS   *)
(* error, which needs a square root, is kept in fixed point with Scale     *)
(* units per 1.0.  Python's None is the empty tuple and a present value v  *)
(* is <<v>>.  A call that raises records the exception class in            *)
(* ret.status.                                                             *)
(***************************************************************************)
EXTENDS Integers, Sequences, FiniteSets, TLC

VARIABLES
    val,          \* Parameter._val, per Parameter object
    bounds,       \* Parameter._bounds, per Parameter object: <<p_min, p_max>>
    flag,         \* Parameter._fit_flag, per Parameter object
    constructed,  \* a Fitter object exists
    data_sets,    \* Fitter._data_sets
    func_set,     \* Fitter._func_set
    fit_range,    \* Fitter._fit_range
    fit_res,      \* Fitter._fit_res
    pc,           \* "idle", or "fitting" while minimize() runs inside Fit
    mz,           \* the state of the running minimize() call
    ret           \* the last call: operation, arguments, outcome

vars == <<val, bounds, flag, constructed, data_sets, func_set, fit_range, fit_res, pc, mz, ret>>

\* ------------------------------------------------------------------ bounds

\* Objective calls the minimizer makes within one Fit.
MaxCalls == 2

\* Fixed-point units per 1.0 of an RMS error.
Scale == 10

\* ------------------------------------------------------------ conventions

None == <<>>

Some(v) == <<v>>

\* The numbers the client and the minimizer write into Parameters.
Values == {0, 1}

Ok(v) == [err |-> "none", v |-> v]

Raise(e) == [err |-> e, v |-> <<>>]

RECURSIVE SumSeq(_)
SumSeq(s) == IF s = <<>> THEN 0 ELSE Head(s) + SumSeq(Tail(s))

RECURSIVE Concat(_)
Concat(ss) == IF ss = <<>> THEN <<>> ELSE Head(ss) \o Concat(Tail(ss))

Min2(a, b) == IF a <= b THEN a ELSE b

\* math.sqrt on fixed-point input: the largest r with r * r <= n.
RECURSIVE SqrtBetween(_, _, _)
SqrtBetween(n, lo, hi) ==
    IF lo = hi THEN lo
    ELSE LET mid == (lo + hi + 1) \div 2
         IN  IF mid * mid <= n THEN SqrtBetween(n, mid, hi) ELSE SqrtBetween(n, lo, mid - 1)

Sqrt(n) == SqrtBetween(n, 0, n)

\* Every tuple of the given length over Values.
RECURSIVE Vectors(_)
Vectors(n) == IF n = 0 THEN {<<>>} ELSE {<<v>> \o w : v \in Values, w \in Vectors(n - 1)}

\* ------------------------------------------------------- Parameter objects

Params == {1, 2, 3}

\* Parameter(val, bounds, fit_flag) as the client built them: 1 and 2 are two
\* objects with equal value, bounds and flag; 3 is a fixed parameter.
InitVal == [p \in Params |-> IF p = 3 THEN 0 ELSE 1]

InitBounds == [p \in Params |-> IF p = 3 THEN <<None, Some(0)>> ELSE <<Some(1), None>>]

InitFlag == [p \in Params |-> p # 3]

\* The Value setter's check: whether warnings.warn is called for val.
ValueWarns(b, v) ==
    \/ (b[1] # None /\ v < b[1][1])
    \/ (b[2] # None /\ v > b[2][1])

\* A Value setter that keeps the value inside the bounds.
ValueStoredClamped(b, v) ==
    IF b[1] # None /\ v < b[1][1] THEN b[1][1]
    ELSE IF b[2] # None /\ v > b[2][1] THEN b[2][1]
    ELSE v

\* The Value setter's store: self._val = val.
ValueStored(b, v) == v

\* --------------------------------------------------------- Function objects

Leaf(ps) == [kind |-> "Function", params |-> ps, funcs |-> <<>>]

Composite(fs) == [kind |-> "CompositeFunction", params |-> <<>>, funcs |-> fs]

\* An object that is no Function (fails isinstance).
NotAFunction == [kind |-> "object", params |-> <<>>, funcs |-> <<>>]

IsFunction(f) == f.kind \in {"Function", "CompositeFunction"}

\* The Function objects of the client, all over the evaluator Polynomial.
FLine == Leaf(<<1, 3>>)

FConst == Leaf(<<2>>)

FTwice == Leaf(<<1, 1>>)

FSum == Composite(<<FLine, FConst>>)

FNested == Composite(<<FSum, Leaf(<<1>>), FTwice>>)

Functions == {FLine, FConst, FTwice, FSum, FNested}

\* np.polyval(p, x) at one point: Horner's rule, highest power first.
RECURSIVE Horner(_, _, _)
Horner(p, x, acc) == IF p = <<>> THEN acc ELSE Horner(Tail(p), x, acc * x + Head(p))

Polynomial(x, p) == [i \in 1..Len(x) |-> Horner(p, x[i], 0)]

\* A sum over the arrays that leaves the last one out.
NpSumAxis0DropsLast(arrs) ==
    [i \in 1..Len(arrs[1]) |-> SumSeq([k \in 1..(Len(arrs) - 1) |-> arrs[k][i]])]

\* np.sum(arrays, axis = 0) over a non-empty list of equally long arrays.
NpSumAxis0(arrs) ==
    [i \in 1..Len(arrs[1]) |-> SumSeq([k \in 1..Len(arrs) |-> arrs[k][i]])]

\* Function.Evaluate and CompositeFunction.Evaluate / EvaluateIndividual, with
\* the Parameter values vs.
RECURSIVE Evaluate(_, _, _)
Evaluate(f, x, vs) ==
    IF f.kind = "Function"
    THEN Ok(Polynomial(x, [i \in 1..Len(f.params) |-> vs[f.params[i]]]))
    ELSE IF ~(Len(x) > 0)
         THEN Raise("AssertionError")
         ELSE LET ys == [k \in 1..Len(f.funcs) |-> Evaluate(f.funcs[k], x, vs)]
              IN  IF \E k \in 1..Len(ys) : ys[k].err # "none"
                  THEN Raise("AssertionError")
                  ELSE Ok(NpSumAxis0([k \in 1..Len(ys) |-> ys[k].v]))

\* A sequence without the repeats of its entries, first occurrences kept.
RECURSIVE RemoveRepeats(_)
RemoveRepeats(s) ==
    IF s = <<>> THEN <<>>
    ELSE LET front == RemoveRepeats(SubSeq(s, 1, Len(s) - 1))
         IN  IF \E i \in 1..Len(front) : front[i] = s[Len(s)]
             THEN front
             ELSE Append(front, s[Len(s)])

\* A GetParamsList that lists every Parameter once.
RECURSIVE GetParamsListOnce(_, _, _)
GetParamsListOnce(f, fit_only, fl) ==
    IF f.kind = "Function"
    THEN RemoveRepeats(SelectSeq(f.params, LAMBDA p : fl[p] \/ ~fit_only))
    ELSE RemoveRepeats(Concat([k \in 1..Len(f.funcs) |-> GetParamsListOnce(f.funcs[k], fit_only, fl)]))

\* Function.GetParamsList and CompositeFunction.GetParamsList, with the fit
\* flags fl.
RECURSIVE GetParamsList(_, _, _)
GetParamsList(f, fit_only, fl) ==
    IF f.kind = "Function"
    THEN SelectSeq(f.params, LAMBDA p : fl[p] \/ ~fit_only)
    ELSE Concat([k \in 1..Len(f.funcs) |-> GetParamsList(f.funcs[k], fit_only, fl)])

\* ------------------------------------------------------------------ Fitter

InSeq(e, s) == \E i \in 1..Len(s) : s[i] = e

\* The loop body of _GetFitParamsList over one list of parameters.
RECURSIVE AppendUnique(_, _)
AppendUnique(params_list, ps) ==
    IF ps = <<>> THEN params_list
    ELSE AppendUnique(IF ~InSeq(Head(ps), params_list)
                      THEN Append(params_list, Head(ps))
                      ELSE params_list,
                      Tail(ps))

RECURSIVE GetFitParamsListFrom(_, _, _)
GetFitParamsListFrom(params_list, fs, fl) ==
    IF fs = <<>> THEN params_list
    ELSE GetFitParamsListFrom(AppendUnique(params_list, GetParamsList(Head(fs), TRUE, fl)),
                              Tail(fs), fl)

\* A _GetFitParamsList that collects the fixed Parameters too.
GetFitParamsListIgnoringFlag(fs, fl) == GetFitParamsListFrom(<<>>, fs, [p \in Params |-> TRUE])

\* A _GetFitParamsList that treats Parameters of equal value, bounds and flag
\* as the same one.
RECURSIVE AppendUniqueByValue(_, _)
AppendUniqueByValue(params_list, ps) ==
    IF ps = <<>> THEN params_list
    ELSE AppendUniqueByValue(
            IF ~\E i \in 1..Len(params_list) :
                    /\ val[params_list[i]] = val[Head(ps)]
                    /\ bounds[params_list[i]] = bounds[Head(ps)]
                    /\ flag[params_list[i]] = flag[Head(ps)]
            THEN Append(params_list, Head(ps))
            ELSE params_list,
            Tail(ps))

RECURSIVE GetFitParamsListByValueFrom(_, _, _)
GetFitParamsListByValueFrom(params_list, fs, fl) ==
    IF fs = <<>> THEN params_list
    ELSE GetFitParamsListByValueFrom(
            AppendUniqueByValue(params_list, GetParamsList(Head(fs), TRUE, fl)),
            Tail(fs), fl)

GetFitParamsListByValue(fs, fl) == GetFitParamsListByValueFrom(<<>>, fs, fl)

\* Fitter._GetFitParamsList
_GetFitParamsList(fs, fl) == GetFitParamsListFrom(<<>>, fs, fl)

\* The fit-range mask of EvaluateFit: the indices of x kept.
Mask(x, fr) == SelectSeq([i \in 1..Len(x) |-> i], LAMBDA i : x[i] >= fr[1] /\ x[i] <= fr[2])

Take(x, idx) == [j \in 1..Len(idx) |-> x[idx[j]]]

\* One iteration of EvaluateFit's loop: the (x, y, y_fit) tuple of one
\* (dataset, function) pair.
EvaluateFitOne(ds, f, fr, vs) ==
    LET idx == IF fr # None THEN Mask(ds[1], fr) ELSE [i \in 1..Len(ds[1]) |-> i]
        x   == Take(ds[1], idx)
        y   == Take(ds[2], idx)
        y_fit == Evaluate(f, x, vs)
    IN  IF fr # None /\ ~(Len(idx) > 0) THEN Raise("AssertionError")
        ELSE IF y_fit.err # "none" THEN Raise(y_fit.err)
        ELSE Ok(<<x, y, y_fit.v>>)

\* EvaluateFit(strip_dims = False): zip(self._data_sets, self._func_set).
EvaluateFitList(dss, fs, fr, vs) ==
    LET n == Min2(Len(dss), Len(fs))
        each == [i \in 1..n |-> EvaluateFitOne(dss[i], fs[i], fr, vs)]
    IN  IF \E i \in 1..n : each[i].err # "none"
        THEN Raise("AssertionError")
        ELSE Ok([i \in 1..n |-> each[i].v])

\* math.sqrt(np.mean((y - y_fit) ** 2)), in fixed point.
Rms(y, y_fit) ==
    Sqrt((Scale * Scale * SumSeq([i \in 1..Len(y) |-> (y[i] - y_fit[i]) * (y[i] - y_fit[i])]))
            \div Len(y))

\* EvaluateFitError(strip_dims = False)
EvaluateFitErrorList(dss, fs, fr, vs) ==
    LET fit_eval == EvaluateFitList(dss, fs, fr, vs)
    IN  IF fit_eval.err # "none" THEN Raise(fit_eval.err)
        ELSE Ok([i \in 1..Len(fit_eval.v) |-> Rms(fit_eval.v[i][2], fit_eval.v[i][3])])

\* np.mean of a non-empty list of fixed-point numbers.
NpMean(s) == SumSeq(s) \div Len(s)

\* _FitFunction: the values written, the warnings raised and the value returned.
RECURSIVE WriteValues(_, _, _, _)
WriteValues(vs, params, param_vals, b) ==
    IF params = <<>> \/ param_vals = <<>> THEN vs
    ELSE WriteValues([vs EXCEPT ![Head(params)] = ValueStored(b[Head(params)], Head(param_vals))],
                     Tail(params), Tail(param_vals), b)

\* A _FitFunction that writes the values it can pair up before comparing the
\* lengths.
FitFunctionWritesFirst(param_vals, dss, fs, fr, vs, fl, b) ==
    LET params == _GetFitParamsList(fs, fl)
        vs2 == WriteValues(vs, params, param_vals, b)
        n == Min2(Len(params), Len(param_vals))
        warned == {params[i] : i \in {j \in 1..n : ValueWarns(b[params[j]], param_vals[j])}}
        rms_errors == EvaluateFitErrorList(dss, fs, fr, vs2)
    IN  IF ~(Len(params) = Len(param_vals))
        THEN [err |-> "AssertionError", vals |-> vs2, warned |-> warned, v |-> 0]
        ELSE IF rms_errors.err # "none"
        THEN [err |-> rms_errors.err, vals |-> vs2, warned |-> warned, v |-> 0]
        ELSE [err |-> "none", vals |-> vs2, warned |-> warned, v |-> NpMean(rms_errors.v)]

_FitFunction(param_vals, dss, fs, fr, vs, fl, b) ==
    LET params == _GetFitParamsList(fs, fl)
    IN  IF ~(Len(params) = Len(param_vals))
        THEN [err |-> "AssertionError", vals |-> vs, warned |-> {}, v |-> 0]
        ELSE LET vs2 == WriteValues(vs, params, param_vals, b)
                 warned == {params[i] : i \in {j \in 1..Len(params) :
                                                ValueWarns(b[params[j]], param_vals[j])}}
                 rms_errors == EvaluateFitErrorList(dss, fs, fr, vs2)
             IN  IF rms_errors.err # "none"
                 THEN [err |-> rms_errors.err, vals |-> vs2, warned |-> warned, v |-> 0]
                 ELSE [err |-> "none", vals |-> vs2, warned |-> warned, v |-> NpMean(rms_errors.v)]

\* ------------------------------------------------------------ client inputs

XLong == <<1, 2, 3, 4, 5>>

DataA == <<XLong, <<1, 2, 3, 4, 5>>>>

DataB == <<<<4, 5, 6, 7, 8>>, <<1, 1, 1, 1, 1>>>>

\* data_set_or_data_sets: one (x, y) tuple, or a list of (x, y) tuples.
DataInputs ==
    { [form |-> "pair", sets |-> <<DataA>>],
      [form |-> "pair", sets |-> << <<<<>>, <<>>>> >>],
      [form |-> "pair", sets |-> << <<<<1, 2>>, <<1>>>> >>],
      [form |-> "list", sets |-> <<DataA>>],
      [form |-> "list", sets |-> <<DataA, DataB>>],
      [form |-> "list", sets |-> <<DataA, <<<<1, 2>>, <<1, 2>>>>>>] }

\* func_or_func_set: one object, or a list of objects.
FuncInputs ==
    { [form |-> "single", fs |-> <<FLine>>],
      [form |-> "single", fs |-> <<FNested>>],
      [form |-> "single", fs |-> <<NotAFunction>>],
      [form |-> "list", fs |-> <<FLine, FConst>>],
      [form |-> "list", fs |-> <<FSum, FTwice>>],
      [form |-> "list", fs |-> <<FLine, NotAFunction>>] }

\* The Fitters that are fitted: one dataset against a nested composite, and
\* two datasets against functions that share Parameters.
FitDataA == <<<<1, 2, 3>>, <<1, 2, 3>>>>

FitDataB == <<<<3, 4, 5>>, <<1, 1, 1>>>>

FitInputs ==
    { <<[form |-> "pair", sets |-> <<FitDataA>>], [form |-> "single", fs |-> <<FNested>>], None>>,
      <<[form |-> "list", sets |-> <<FitDataA, FitDataB>>], [form |-> "list", fs |-> <<FLine, FConst>>], <<1, 2>>>>,
      <<[form |-> "list", sets |-> <<FitDataA, FitDataB>>], [form |-> "list", fs |-> <<FSum, FTwice>>], None>> }

\* fit_range arguments: None or (x_min, x_max).
RangeInputs == {None, <<2, 4>>, <<1, 3>>, <<10, 20>>}

\* x arguments of Evaluate and EvaluateNew.
XInputs == {<<>>, <<2>>, <<1, 3>>}

\* np.shape of a data_set_or_data_sets argument; <<-1>> when the nesting is
\* ragged, which no array holds.
NpShape(d) ==
    LET lens == {Len(d.sets[i][j]) : i \in 1..Len(d.sets), j \in {1, 2}}
    IN  IF d.sets = <<>> THEN <<0>>
        ELSE IF Cardinality(lens) # 1 THEN <<-1>>
        ELSE IF d.form = "pair" THEN <<2, Len(d.sets[1][1])>>
        ELSE <<Len(d.sets), 2, Len(d.sets[1][1])>>

\* Fitter.__init__: the exception raised, or the fields of the new object.
FitterInit(d, fin, fr) ==
    LET shape == NpShape(d)
    IN  IF shape = <<-1>> THEN Raise("ValueError")
        ELSE IF \E i \in 1..Len(d.sets) :
                    ~(Len(d.sets[i][1]) > 0 /\ Len(d.sets[i][1]) = Len(d.sets[i][2]))
        THEN Raise("AssertionError")
        ELSE IF fin.form = "single" /\ ~IsFunction(fin.fs[1]) THEN Raise("TypeError")
        ELSE IF \E i \in 1..Len(fin.fs) : ~IsFunction(fin.fs[i]) THEN Raise("AssertionError")
        ELSE Ok([data_sets |-> d.sets, func_set |-> fin.fs, fit_range |-> fr])

Call(op, status, args, value, warned) ==
    [op |-> op, status |-> status, args |-> args, value |-> value, warned |-> warned]

NoMinimizer == [x0 |-> <<>>, bounds |-> <<>>, nfev |-> 0, x |-> <<>>, fun |-> 0]

Init ==
    /\ val = InitVal
    /\ bounds = InitBounds
    /\ flag = InitFlag
    /\ constructed = FALSE
    /\ data_sets = <<>>
    /\ func_set = <<>>
    /\ fit_range = None
    /\ fit_res = None
    /\ pc = "idle"
    /\ mz = NoMinimizer
    /\ ret = Call("Parameter", "ok", <<>>, <<>>, {})

\* ----------------------------------------------------------------- actions

\* Fitter(data_set_or_data_sets, func_or_func_set, fit_range), the arguments
\* drawn from the given set
FitterCall(Args) ==
    /\ pc = "idle"
    /\ ~constructed
    /\ \E a \in Args :
          LET d == a[1]
              fin == a[2]
              fr == a[3]
              r == FitterInit(d, fin, fr)
          IN  /\ ret' = Call("Fitter", IF r.err = "none" THEN "ok" ELSE r.err, <<d, fin, fr>>, <<>>, {})
              /\ IF r.err = "none"
                 THEN /\ constructed' = TRUE
                      /\ data_sets' = r.v.data_sets
                      /\ func_set' = r.v.func_set
                      /\ fit_range' = r.v.fit_range
                 ELSE UNCHANGED <<constructed, data_sets, func_set, fit_range>>
    /\ UNCHANGED <<val, bounds, flag, fit_res, pc, mz>>

Construct == FitterCall(DataInputs \X FuncInputs \X {None, <<2, 4>>})

ConstructForFit == FitterCall(FitInputs)

\* param.Value = v, by the client
SetValue ==
    /\ pc = "idle"
    /\ \E p \in Params, v \in Values :
          /\ val' = [val EXCEPT ![p] = ValueStored(bounds[p], v)]
          /\ ret' = Call("Value", "ok", <<p, v>>, <<>>,
                         IF ValueWarns(bounds[p], v) THEN {p} ELSE {})
    /\ UNCHANGED <<bounds, flag, constructed, data_sets, func_set, fit_range, fit_res, pc, mz>>

\* param.FitFlag = b, by the client
SetFitFlag ==
    /\ pc = "idle"
    /\ \E p \in Params, b \in BOOLEAN :
          /\ flag' = [flag EXCEPT ![p] = b]
          /\ ret' = Call("FitFlag", "ok", <<>>, <<>>, {})
    /\ UNCHANGED <<val, bounds, constructed, data_sets, func_set, fit_range, fit_res, pc, mz>>

\* fitter.FitRange = fr, by the client
SetFitRange ==
    /\ pc = "idle"
    /\ constructed
    /\ \E fr \in RangeInputs :
          /\ fit_range' = fr
          /\ ret' = Call("FitRange", "ok", <<fr>>, <<>>, {})
    /\ UNCHANGED <<val, bounds, flag, constructed, data_sets, func_set, fit_res, pc, mz>>

\* Fit, up to the call of minimize(): the initial vector and the bounds.  A
\* minimizer given an empty vector either runs or raises, by its version.
FitCall ==
    /\ pc = "idle"
    /\ constructed
    /\ LET params == _GetFitParamsList(func_set, flag)
           fit_p_init == [i \in 1..Len(params) |-> val[params[i]]]
           fit_p_bounds == [i \in 1..Len(params) |-> bounds[params[i]]]
       IN  \/ /\ pc' = "fitting"
              /\ mz' = [x0 |-> fit_p_init, bounds |-> fit_p_bounds, nfev |-> 0,
                        x |-> fit_p_init, fun |-> 0]
              /\ ret' = Call("Fit", "running", <<>>, <<>>, {})
           \/ /\ params = <<>>
              /\ ret' = Call("Fit", "ValueError", <<>>, <<>>, {})
              /\ UNCHANGED <<pc, mz>>
    /\ UNCHANGED <<val, bounds, flag, constructed, data_sets, func_set, fit_range, fit_res>>

\* The initial vector moved into the bounds, as minimize() does in some
\* versions before its first evaluation.
Clip(x0, bs) ==
    [i \in 1..Len(x0) |->
        IF bs[i][1] # None /\ x0[i] < bs[i][1][1] THEN bs[i][1][1]
        ELSE IF bs[i][2] # None /\ x0[i] > bs[i][2][1] THEN bs[i][2][1]
        ELSE x0[i]]

\* minimize() calls the objective with a trial vector of its choice, the first
\* time with the initial vector; an exception of the objective ends Fit.
ObjectiveCall ==
    /\ pc = "fitting"
    /\ mz.nfev < MaxCalls
    /\ \E param_vals \in Vectors(Len(mz.x0)) :
          /\ mz.nfev = 0 => param_vals \in {mz.x0, Clip(mz.x0, mz.bounds)}
          /\ LET r == _FitFunction(param_vals, data_sets, func_set, fit_range, val, flag, bounds)
             IN  /\ val' = r.vals
                 /\ IF r.err = "none"
                    THEN /\ mz' = IF mz.nfev = 0 \/ r.v < mz.fun
                                  THEN [mz EXCEPT !.nfev = @ + 1, !.x = param_vals, !.fun = r.v]
                                  ELSE [mz EXCEPT !.nfev = @ + 1]
                         /\ ret' = Call("_FitFunction", "ok", <<param_vals>>, r.v, r.warned)
                         /\ pc' = pc
                    ELSE /\ mz' = NoMinimizer
                         /\ ret' = Call("Fit", r.err, <<param_vals>>, <<>>, r.warned)
                         /\ pc' = "idle"
    /\ UNCHANGED <<bounds, flag, constructed, data_sets, func_set, fit_range, fit_res>>

\* A Fit that stores a result only when none is stored yet.
FitReturnKeepsFirst ==
    /\ pc = "fitting"
    /\ mz.nfev > 0
    /\ fit_res' = IF fit_res = None THEN Some([x |-> mz.x, fun |-> mz.fun]) ELSE fit_res
    /\ ret' = Call("Fit", "ok", <<>>, mz.fun, {})
    /\ pc' = "idle"
    /\ mz' = NoMinimizer
    /\ UNCHANGED <<val, bounds, flag, constructed, data_sets, func_set, fit_range>>

\* minimize() returns the best point it evaluated; Fit stores the result.
FitReturn ==
    /\ pc = "fitting"
    /\ mz.nfev > 0
    /\ fit_res' = Some([x |-> mz.x, fun |-> mz.fun])
    /\ ret' = Call("Fit", "ok", <<>>, mz.fun, {})
    /\ pc' = "idle"
    /\ mz' = NoMinimizer
    /\ UNCHANGED <<val, bounds, flag, constructed, data_sets, func_set, fit_range>>

\* Trial vectors of every length up to the number of Parameters.
TrialVectors == UNION {Vectors(n) : n \in 0..Cardinality(Params)}

\* fitter._FitFunction(param_vals), called outside a Fit with a vector of any
\* length
FitFunctionCall ==
    /\ pc = "idle"
    /\ constructed
    /\ \E param_vals \in TrialVectors :
          LET r == _FitFunction(param_vals, data_sets, func_set, fit_range, val, flag, bounds)
          IN  /\ val' = r.vals
              /\ ret' = Call("_FitFunction", IF r.err = "none" THEN "ok" ELSE r.err,
                             <<param_vals>>, r.v, r.warned)
    /\ UNCHANGED <<bounds, flag, constructed, data_sets, func_set, fit_range, fit_res, pc, mz>>

\* An evaluation that drops the stored fit result.
FrameDropsFitResult ==
    /\ fit_res' = None
    /\ UNCHANGED <<val, bounds, flag, constructed, data_sets, func_set, fit_range, pc, mz>>

\* What an evaluation leaves alone: everything but its return value.
Frame == UNCHANGED <<val, bounds, flag, constructed, data_sets, func_set, fit_range, fit_res, pc, mz>>

\* fitter.EvaluateFit(strip_dims)
EvaluateFit ==
    /\ pc = "idle"
    /\ constructed
    /\ \E strip_dims \in BOOLEAN :
          LET fit_eval == EvaluateFitList(data_sets, func_set, fit_range, val)
          IN  ret' = IF fit_eval.err # "none"
                     THEN Call("EvaluateFit", fit_eval.err, <<strip_dims>>, <<>>, {})
                     ELSE Call("EvaluateFit", "ok", <<strip_dims>>,
                               IF strip_dims /\ Len(fit_eval.v) = 1
                               THEN [single |-> TRUE, v |-> fit_eval.v[1]]
                               ELSE [single |-> FALSE, v |-> fit_eval.v], {})
    /\ Frame

\* fitter.EvaluateFitError(strip_dims)
EvaluateFitError ==
    /\ pc = "idle"
    /\ constructed
    /\ \E strip_dims \in BOOLEAN :
          LET rms_errors == EvaluateFitErrorList(data_sets, func_set, fit_range, val)
          IN  ret' = IF rms_errors.err # "none"
                     THEN Call("EvaluateFitError", rms_errors.err, <<strip_dims>>, <<>>, {})
                     ELSE Call("EvaluateFitError", "ok", <<strip_dims>>,
                               IF strip_dims /\ Len(rms_errors.v) = 1
                               THEN [single |-> TRUE, v |-> rms_errors.v[1]]
                               ELSE [single |-> FALSE, v |-> rms_errors.v], {})
    /\ Frame

\* fitter.EvaluateNew(x, strip_dims)
EvaluateNew ==
    /\ pc = "idle"
    /\ constructed
    /\ \E x \in XInputs, strip_dims \in BOOLEAN :
          LET each == [i \in 1..Len(func_set) |-> Evaluate(func_set[i], x, val)]
              fit_eval == [i \in 1..Len(func_set) |-> each[i].v]
          IN  ret' = IF \E i \in 1..Len(func_set) : each[i].err # "none"
                     THEN Call("EvaluateNew", "AssertionError", <<x, strip_dims>>, <<>>, {})
                     ELSE Call("EvaluateNew", "ok", <<x, strip_dims>>,
                               IF strip_dims /\ Len(fit_eval) = 1
                               THEN [single |-> TRUE, v |-> fit_eval[1]]
                               ELSE [single |-> FALSE, v |-> fit_eval], {})
    /\ Frame

\* fitter.GetParamsList(strip_dims)
FitterGetParamsList ==
    /\ pc = "idle"
    /\ constructed
    /\ \E strip_dims \in BOOLEAN :
          LET params_list == [i \in 1..Len(func_set) |-> GetParamsList(func_set[i], FALSE, flag)]
          IN  ret' = Call("GetParamsList", "ok", <<strip_dims>>,
                          IF strip_dims /\ Len(params_list) = 1
                          THEN [single |-> TRUE, v |-> params_list[1]]
                          ELSE [single |-> FALSE, v |-> params_list], {})
    /\ Frame

\* func.Evaluate(x), by the client, on any of its Function objects
FunctionEvaluate ==
    /\ pc = "idle"
    /\ \E f \in Functions, x \in XInputs :
          LET r == Evaluate(f, x, val)
          IN  ret' = Call("Evaluate", IF r.err = "none" THEN "ok" ELSE r.err, <<f, x>>, r.v, {})
    /\ Frame

\* func.GetParamsList(fit_only), by the client, on any of its Function objects
FunctionGetParamsList ==
    /\ pc = "idle"
    /\ \E f \in Functions, fit_only \in BOOLEAN :
          ret' = Call("Function.GetParamsList", "ok", <<f, fit_only>>,
                      GetParamsList(f, fit_only, flag), {})
    /\ Frame

\* ------------------------------------------------- SweepInitialParameters

\* Positional parameters of CreateFunction(func, p_init, p_fit, p_bounds).
CreateFunctionParameters == 4

\* CreateFunction called with the positional arguments args: the new
\* Function's Parameter objects, each given by its fields.
CreateFunction(args) ==
    IF Len(args) > CreateFunctionParameters THEN Raise("TypeError")
    ELSE LET params == args[2]
             p_fit == IF Len(args) >= 3 THEN args[3] ELSE None
             p_bounds == IF Len(args) >= 4 THEN args[4] ELSE None
         IN  IF \/ (p_fit # None /\ ~(Len(p_fit[1]) = Len(params)))
                \/ (p_bounds # None /\ ~(Len(p_bounds[1]) = Len(params)))
             THEN Raise("AssertionError")
             ELSE Ok([i \in 1..Len(params) |->
                        [val |-> params[i],
                         fit_flag |-> IF p_fit # None THEN p_fit[1][i] ELSE TRUE,
                         bounds |-> IF p_bounds # None THEN p_bounds[1][i] ELSE <<None, None>>]])

\* itertools.product(*param_lists), the last list varying fastest.
RECURSIVE Product(_)
Product(param_lists) ==
    IF param_lists = <<>> THEN << <<>> >>
    ELSE LET rest == Product(Tail(param_lists))
         IN  Concat([i \in 1..Len(Head(param_lists)) |->
                        [j \in 1..Len(rest) |-> <<Head(param_lists)[i]>> \o rest[j]]])

\* list.sort(key = item[-1]): stable, ascending.
RECURSIVE InsertByRms(_, _)
InsertByRms(sorted, item) ==
    IF sorted = <<>> THEN <<item>>
    ELSE IF sorted[Len(sorted)][3] <= item[3] THEN Append(sorted, item)
    ELSE Append(InsertByRms(SubSeq(sorted, 1, Len(sorted) - 1), item), sorted[Len(sorted)])

RECURSIVE SortByRms(_, _)
SortByRms(sorted, items) ==
    IF items = <<>> THEN sorted ELSE SortByRms(InsertByRms(sorted, Head(items)), Tail(items))

\* params_or_param_lists arguments: per parameter a scalar or a list.
Scalar(v) == [scalar |-> TRUE, vs |-> <<v>>]

List(vs) == [scalar |-> FALSE, vs |-> vs]

SweepInputs ==
    { <<List(<<1, 0>>)>>,
      <<Scalar(1), List(<<0, 1>>)>>,
      <<List(<<>>), Scalar(0)>> }

\* SweepInitialParameters(DataA, Polynomial, params_or_param_lists).  Past
\* CreateFunction, each trial's Fit leaves in its Parameters what the
\* minimizer wrote last.
SweepInitialParameters ==
    /\ pc = "idle"
    /\ \E pls \in SweepInputs :
          LET param_lists == [i \in 1..Len(pls) |-> pls[i].vs]
              param_labels == [i \in 1..Len(param_lists) |-> i]
              trials == Product(param_lists)
              fit_func == [k \in 1..Len(trials) |->
                             CreateFunction(<<"Polynomial", trials[k], Some(param_labels), None, None>>)]
          IN  IF \E k \in 1..Len(trials) : fit_func[k].err # "none"
              THEN ret' = Call("SweepInitialParameters",
                               fit_func[CHOOSE k \in 1..Len(trials) : fit_func[k].err # "none"].err,
                               <<pls>>, <<>>, {})
              ELSE \E fitted \in [1..Len(trials) -> Vectors(Len(param_lists))] :
                      LET fit_results == SortByRms(<<>>,
                              [k \in 1..Len(trials) |->
                                  <<trials[k], fitted[k], Rms(DataA[2], Polynomial(DataA[1], fitted[k]))>>])
                      IN  ret' = IF fit_results = <<>>
                                 THEN Call("SweepInitialParameters", "IndexError", <<pls>>, <<>>, {})
                                 ELSE Call("SweepInitialParameters", "ok", <<pls>>,
                                           <<fit_results[1][2], fit_results>>, {})
    /\ Frame

\* The Fitter's evaluation interface and the Function objects.
Next ==
    \/ Construct
    \/ SetValue
    \/ SetFitRange
    \/ EvaluateFit
    \/ EvaluateFitError
    \/ EvaluateNew
    \/ FitterGetParamsList
    \/ FunctionEvaluate
    \/ SweepInitialParameters

Spec == Init /\ [][Next]_vars

\* Fitting: the client builds a Fitter, sets values and flags, and calls Fit.
NextFit ==
    \/ ConstructForFit
    \/ SetValue
    \/ SetFitFlag
    \/ FitCall
    \/ ObjectiveCall
    \/ FitReturn

SpecFit == Init /\ [][NextFit]_vars

\* Evaluation between and after fits.
NextEvaluate ==
    \/ ConstructForFit
    \/ SetValue
    \/ SetFitRange
    \/ FitCall
    \/ ObjectiveCall
    \/ FitReturn
    \/ EvaluateFit
    \/ EvaluateFitError
    \/ EvaluateNew
    \/ FitterGetParamsList
    \/ FunctionEvaluate

SpecEvaluate == Init /\ [][NextEvaluate]_vars

\* The objective function called on its own.
NextObjective ==
    \/ ConstructForFit
    \/ SetValue
    \/ SetFitFlag
    \/ FitFunctionCall

SpecObjective == Init /\ [][NextObjective]_vars

\* The Function objects and their Parameters, without a Fitter.
NextParams ==
    \/ SetValue
    \/ SetFitFlag
    \/ FunctionGetParamsList

SpecParams == Init /\ [][NextParams]_vars

\* ------------------------------------------------------------------ claims

\* The Parameters met when walking a function set in order, repeats included.
Walk(fs) == Concat([k \in 1..Len(fs) |-> GetParamsList(fs[k], FALSE, flag)])

FirstIndex(p, s) == CHOOSE i \in 1..Len(s) : s[i] = p /\ \A j \in 1..(i - 1) : s[j] # p

\* v lies outside [lower, upper], a missing bound being unbounded on its side.
OutOfBounds(b, v) == ~((b[1] = None \/ b[1][1] <= v) /\ (b[2] = None \/ v <= b[2][1]))

\* The indices of the points of dataset ds inside the fit range fr, ends included.
PointsInRange(ds, fr) == {i \in 1..Len(ds[1]) : fr[1] <= ds[1][i] /\ ds[1][i] <= fr[2]}

\* C1: the free-parameter list of a Fitter holds every Parameter of its
\* function sets with fit_flag = true exactly once and none with fit_flag =
\* false, in the order of first occurrence in the walk over the function sets;
\* Parameters are told apart by identity, so two objects with equal fields are
\* both listed.  The list handed to the minimizer is this list.
C1_FreeListUniqueByIdentity ==
    constructed =>
        LET params == _GetFitParamsList(func_set, flag)
            walk == Walk(func_set)
        IN  /\ \A p \in Params :
                  (InSeq(p, walk) /\ flag[p]) =>
                      Cardinality({i \in 1..Len(params) : params[i] = p}) = 1
            /\ \A i \in 1..Len(params) : flag[params[i]] /\ InSeq(params[i], walk)
            /\ \A i, j \in 1..Len(params) :
                  i < j => FirstIndex(params[i], walk) < FirstIndex(params[j], walk)
            /\ pc = "fitting" => Len(mz.x0) = Len(params)

\* A fit over two datasets whose functions share Parameter 1, with Parameters
\* 1 and 2 equal in every field: the list is <<1, 2>>.
C1_Witness ==
    /\ pc = "fitting"
    /\ mz.nfev > 0
    /\ func_set = <<FSum, FTwice>>
    /\ flag[1] /\ flag[2] /\ ~flag[3]
    /\ val[1] = val[2] /\ bounds[1] = bounds[2]
    /\ _GetFitParamsList(func_set, flag) = <<1, 2>>

\* C2: when Fit has returned, every free Parameter holds the entry of the
\* optimal vector the minimizer reported, and the mean RMS error evaluated now
\* is the value Fit returned.
C2_ParametersHoldOptimum ==
    (ret.op = "Fit" /\ ret.status = "ok") =>
        LET params == _GetFitParamsList(func_set, flag)
            rms_errors == EvaluateFitErrorList(data_sets, func_set, fit_range, val)
        IN  /\ \A i \in 1..Len(params) : val[params[i]] = fit_res[1].x[i]
            /\ rms_errors.err = "none"
            /\ NpMean(rms_errors.v) = ret.value

\* C3: every step of a Fit call (the call, each objective evaluation, the
\* return) leaves fit flags and bounds alone and leaves the Value of every
\* Parameter that is fixed at that time alone; an objective evaluation writes
\* its trial vector into the Parameters that are free at that time, so a flag
\* changed between two Fit calls counts in the second.
C3_FitWritesOnlyFree ==
    [][ ret'.op \in {"Fit", "_FitFunction"} =>
            /\ flag' = flag
            /\ bounds' = bounds
            /\ \A p \in Params : ~flag[p] => val'[p] = val[p]
            /\ (pc = "fitting" /\ ret'.args # <<>>) =>
                  LET params == _GetFitParamsList(func_set, flag)
                  IN  /\ \A i \in 1..Len(params) : val'[params[i]] = ret'.args[1][i]
                      /\ \A p \in Params :
                            (flag[p] /\ InSeq(p, Walk(func_set))) => InSeq(p, params)
      ]_vars

\* A second Fit whose free list has another length than the stored result of
\* the first, with a fixed Parameter in the function set.
C3_Witness ==
    /\ pc = "fitting"
    /\ mz.nfev > 1
    /\ fit_res # None
    /\ Len(fit_res[1].x) # Len(mz.x0)
    /\ \E p \in Params : ~flag[p] /\ InSeq(p, Walk(func_set)) /\ val[p] # InitVal[p]

\* C4: a constructed Fitter has as many datasets as functions, every dataset
\* with non-empty x and y of equal length, every function a Function.
C4_OneFunctionPerDataset ==
    constructed =>
        /\ Len(data_sets) = Len(func_set)
        /\ \A i \in 1..Len(data_sets) :
              Len(data_sets[i][1]) > 0 /\ Len(data_sets[i][1]) = Len(data_sets[i][2])
        /\ \A i \in 1..Len(func_set) : IsFunction(func_set[i])

\* C5: EvaluateFit, EvaluateFitError, EvaluateNew and GetParamsList return an
\* unwrapped item exactly when strip_dims is true and one dataset is
\* registered, and otherwise a sequence with one entry per dataset.
C5_StripRule ==
    (ret.op \in {"EvaluateFit", "EvaluateFitError", "EvaluateNew", "GetParamsList"}
        /\ ret.status = "ok") =>
        LET strip_dims == ret.args[Len(ret.args)]
        IN  /\ ret.value.single <=> (strip_dims /\ Len(data_sets) = 1)
            /\ ~ret.value.single => Len(ret.value.v) = Len(data_sets)

\* C6: Function.Evaluate fails on an empty x, and so does Fitter.EvaluateNew,
\* whatever the registered functions.
C6_EmptyXFails ==
    /\ (ret.op = "Evaluate" /\ ret.args[2] = <<>>) => ret.status = "AssertionError"
    /\ (ret.op = "EvaluateNew" /\ ret.args[1] = <<>>) => ret.status = "AssertionError"

\* C7: with a fit range set, EvaluateFit fails when the range leaves some
\* dataset without points, and otherwise returns, for every dataset, exactly
\* the points inside the range (ends included), x and y together, in order.
C7_FitRangeFilter ==
    (ret.op = "EvaluateFit" /\ fit_range # None) =>
        IF \E i \in 1..Len(data_sets) : PointsInRange(data_sets[i], fit_range) = {}
        THEN ret.status = "AssertionError"
        ELSE /\ ret.status = "ok"
             /\ LET fit_eval == IF ret.value.single THEN <<ret.value.v>> ELSE ret.value.v
                IN  /\ Len(fit_eval) = Len(data_sets)
                    /\ \A i \in 1..Len(fit_eval) :
                          LET kept == PointsInRange(data_sets[i], fit_range)
                              ix == [j \in 1..Cardinality(kept) |->
                                        CHOOSE k \in kept : Cardinality({m \in kept : m < k}) = j - 1]
                          IN  /\ fit_eval[i][1] = [j \in 1..Len(ix) |-> data_sets[i][1][ix[j]]]
                              /\ fit_eval[i][2] = [j \in 1..Len(ix) |-> data_sets[i][2][ix[j]]]

\* C8: a write of v into Parameter.Value stores v whatever the bounds, and
\* warns exactly when v lies outside them; so does every write of the
\* objective, whose evaluation fails only for an empty fit-range subset.
C8_ValueStoredWithWarning ==
    /\ ret.op = "Value" =>
          /\ val[ret.args[1]] = ret.args[2]
          /\ ret.status = "ok"
          /\ (ret.args[1] \in ret.warned) <=> OutOfBounds(bounds[ret.args[1]], ret.args[2])
    /\ (ret.op = "_FitFunction" \/ (ret.op = "Fit" /\ ret.status = "AssertionError")) =>
          LET params == _GetFitParamsList(func_set, flag)
          IN  /\ Len(ret.args[1]) = Len(params)
              /\ \A i \in 1..Len(params) :
                    /\ val[params[i]] = ret.args[1][i]
                    /\ (params[i] \in ret.warned) <=> OutOfBounds(bounds[params[i]], ret.args[1][i])
              /\ ret.status = "AssertionError" =>
                    /\ fit_range # None
                    /\ \E i \in 1..Len(data_sets) : PointsInRange(data_sets[i], fit_range) = {}

\* An objective evaluation that wrote an out-of-bounds trial value and
\* returned.
C8_Witness ==
    /\ ret.op = "_FitFunction"
    /\ ret.status = "ok"
    /\ \E p \in ret.warned : OutOfBounds(bounds[p], val[p])

\* C9: SweepInitialParameters over a non-empty product of candidate lists
\* returns (p_opt, fit_results) with one (p_init, p_opt, rms) entry per
\* combination, ascending in rms, p_opt being that of the first entry.
C9_SweepReturnsRankedTrials ==
    (ret.op = "SweepInitialParameters"
        /\ \A i \in 1..Len(ret.args[1]) : ret.args[1][i].vs # <<>>) =>
        /\ ret.status = "ok"
        /\ LET trials == Product([i \in 1..Len(ret.args[1]) |-> ret.args[1][i].vs])
               fit_results == ret.value[2]
           IN  /\ Len(fit_results) = Len(trials)
               /\ \A k \in 1..Len(trials) :
                     Cardinality({m \in 1..Len(fit_results) : fit_results[m][1] = trials[k]}) = 1
               /\ \A m \in 1..(Len(fit_results) - 1) : fit_results[m][3] <= fit_results[m + 1][3]
               /\ ret.value[1] = fit_results[1][2]

\* C10: Evaluate(x) of a CompositeFunction on a non-empty x has the length of
\* x and is, entry by entry, the sum of its children's Evaluate(x); on an empty
\* x it fails.
C10_CompositeIsSumOfChildren ==
    (ret.op = "Evaluate" /\ ret.args[1].kind = "CompositeFunction") =>
        LET f == ret.args[1]
            x == ret.args[2]
        IN  IF x = <<>> THEN ret.status = "AssertionError"
            ELSE /\ ret.status = "ok"
                 /\ Len(ret.value) = Len(x)
                 /\ \A i \in 1..Len(x) :
                       ret.value[i] = SumSeq([k \in 1..Len(f.funcs) |-> Evaluate(f.funcs[k], x, val).v[i]])

\* The nested composite evaluated at two points, with two different sums.
C10_Witness ==
    /\ ret.op = "Evaluate"
    /\ ret.args[1] = FNested
    /\ ret.args[2] = <<1, 3>>
    /\ ret.status = "ok"
    /\ ret.value[1] # ret.value[2]

\* The number of entries of the sequence s that are p.
Occurrences(p, s) == Cardinality({i \in 1..Len(s) : s[i] = p})

\* C11: GetParamsList(fit_only) on a Function returns, in declaration order,
\* its Parameters (all of them, or with fit_only those whose fit flag is set);
\* on a CompositeFunction it returns the concatenation of its children's
\* GetParamsList(fit_only) in child order, so a Parameter occurs as often as in
\* all the children's lists together.
C11_ParamsListInOrderWithRepeats ==
    ret.op = "Function.GetParamsList" =>
        LET f == ret.args[1]
            fit_only == ret.args[2]
            params_list == ret.value
        IN  /\ ret.status = "ok"
            /\ f.kind = "Function" =>
                  LET kept == {i \in 1..Len(f.params) : flag[f.params[i]] \/ ~fit_only}
                  IN  /\ Len(params_list) = Cardinality(kept)
                      /\ \A i \in kept :
                            params_list[Cardinality({j \in kept : j < i}) + 1] = f.params[i]
            /\ f.kind = "CompositeFunction" =>
                  LET each == [k \in 1..Len(f.funcs) |-> GetParamsList(f.funcs[k], fit_only, flag)]
                  IN  /\ Len(params_list) = SumSeq([k \in 1..Len(each) |-> Len(each[k])])
                      /\ \A k \in 1..Len(each) : \A i \in 1..Len(each[k]) :
                            params_list[SumSeq([m \in 1..(k - 1) |-> Len(each[m])]) + i] = each[k][i]
                      /\ \A p \in Params :
                            Occurrences(p, params_list)
                                = SumSeq([k \in 1..Len(each) |-> Occurrences(p, each[k])])

\* The nested composite asked for its free Parameters while Parameter 2 is
\* fixed: Parameter 1, shared by four leaves, is listed four times.
C11_Witness ==
    /\ ret.op = "Function.GetParamsList"
    /\ ret.args = <<FNested, TRUE>>
    /\ ~flag[2] /\ ~flag[3]
    /\ ret.value = <<1, 1, 1, 1>>

\* C12: a call of the objective with a vector whose length is not the number
\* of free Parameters fails and leaves every Parameter's Value as it was; a
\* call with a vector of that length writes entry i into the i-th Parameter of
\* the free list (each Parameter listed once) and into no other Parameter.
C12_ObjectiveChecksLengthFirst ==
    [][ (ret'.op = "_FitFunction" /\ pc = "idle") =>
            LET params == _GetFitParamsList(func_set, flag)
                param_vals == ret'.args[1]
            IN  IF Len(param_vals) # Len(params)
                THEN /\ ret'.status = "AssertionError"
                     /\ val' = val
                ELSE /\ \A i \in 1..Len(params) : val'[params[i]] = param_vals[i]
                     /\ \A p \in Params : ~InSeq(p, params) => val'[p] = val[p]
      ]_vars

\* A failed call whose vector is not empty, has the wrong length and differs
\* in its first entry from the first free Parameter's Value.
C12_Witness ==
    /\ ret.op = "_FitFunction"
    /\ ret.status = "AssertionError"
    /\ pc = "idle"
    /\ LET params == _GetFitParamsList(func_set, flag)
       IN  /\ Len(ret.args[1]) # Len(params)
           /\ Len(ret.args[1]) > 0
           /\ Len(params) > 0
           /\ val[params[1]] # ret.args[1][1]

\* C13: Evaluate of a Function or CompositeFunction and the Fitter's
\* EvaluateFit, EvaluateFitError, EvaluateNew and GetParamsList change no
\* Parameter's value, bounds or fit flag, nor the stored datasets, functions,
\* fit range and fit result; and the output of an Evaluate is the output of the
\* same Evaluate made again in the state it returned in.
C13_EvaluationLeavesStateAlone ==
    /\ [][ ret'.op \in {"Evaluate", "EvaluateFit", "EvaluateFitError", "EvaluateNew", "GetParamsList"} =>
              /\ val' = val /\ bounds' = bounds /\ flag' = flag
              /\ data_sets' = data_sets /\ func_set' = func_set
              /\ fit_range' = fit_range /\ fit_res' = fit_res
         ]_vars
    /\ [](ret.op = "Evaluate" =>
              LET again == Evaluate(ret.args[1], ret.args[2], val)
              IN  /\ ret.status = (IF again.err = "none" THEN "ok" ELSE again.err)
                  /\ ret.value = again.v)

\* An EvaluateFitError that returned after a completed Fit, under a fit range
\* and with a Parameter away from its initial value.
C13_Witness ==
    /\ ret.op = "EvaluateFitError"
    /\ ret.status = "ok"
    /\ fit_res # None
    /\ fit_range # None
    /\ val # InitVal

\* C14: FitResult is None at first and changes only when a Fit call completes,
\* to the result of that call, whose error Fit returns; a Fit call that fails
\* in the minimizer or in the objective leaves FitResult as it was; and a Fit
\* call that starts, on a Fitter fitted before or not, runs the minimizer with
\* FitResult as it was.
C14_FitResultLifecycle ==
    /\ fit_res = None
    /\ [][ /\ fit_res' # fit_res => (pc = "fitting" /\ ret'.op = "Fit" /\ ret'.status = "ok")
           /\ (pc = "fitting" /\ ret'.op = "Fit" /\ ret'.status = "ok") =>
                  /\ fit_res' = Some([x |-> mz.x, fun |-> mz.fun])
                  /\ ret'.value = mz.fun
                  /\ pc' = "idle"
           /\ (ret'.op = "Fit" /\ ret'.status \notin {"ok", "running"}) =>
                  /\ fit_res' = fit_res
                  /\ pc' = "idle"
           /\ (ret'.op = "Fit" /\ ret'.status = "running") =>
                  /\ fit_res' = fit_res
                  /\ pc' = "fitting"
         ]_vars

\* A Fit that failed after an earlier Fit on the same Fitter had completed.
C14_Witness ==
    /\ ret.op = "Fit"
    /\ ret.status \notin {"ok", "running"}
    /\ fit_res # None
    /\ pc = "idle"

====
